---- MODULE Spec2Model ----
(***************************************************************************)
(* Gem ledger of the 5 Minute Survey platform: the storage facade          *)
(* (DatabaseStorage) and the request handlers of registerRoutes that       *)
(* change balances, ledger rows and withdrawal requests.                   *)
(*                                                                         *)
(* Every store call (one SQL statement, one `await`) is one action; the    *)
(* synchronous code of a handler around a call belongs to the action of    *)
(* the call that follows it.  A query result is a sequence of rows, as in  *)
(* the source (`const [row] = await db.select()...`): <<>> is "no row".    *)
(***************************************************************************)
EXTENDS Integers, Sequences, FiniteSets, TLC

\* ------------------------------------------------------------------ bounds
\* Requests are accepted while the audit log has fewer rows than this
\* (every request that runs to its end appends exactly one row).
MaxLogs == 4
\* The same, for the specification with two workers; a request in flight
\* counts as a row.
MaxRaceLogs == 3

\* ------------------------------------------------------- program constants
\* routes.ts:147  `if (validatedData.amount < 100)`
MinWithdrawal == 100

\* ----------------------------------------------------------- the universe
\* Rows of the users table.  "u2" signed in with the operator address and is
\* the admin (storage upsertUser); "u1" is an ordinary user.
Users == {"u1", "u2"}
AdminUsers == {"u2"}

\* Seeded surveys and their rewards; id 3 is not in the table.
SurveyIds == {1, 2}
SurveyReward(id) == IF id = 1 THEN 50 ELSE 60
RequestedSurveyIds == {1, 2, 3}

\* Request workers.  The sequential specification uses the first only.
Procs == {"p1", "p2"}

\* Amounts a client asks to withdraw, rewards an offerwall client reports.
WithdrawAmounts == {-100, 0, 50, 100, 200}
OfferRewards == {100}
\* Rewards a client reports on the offerwall routes when nothing else runs.
ClientRewards == {-100, 0, 100}
\* walletAddress of the body: "" stands for a body without the field.
WalletAddresses == {"", "LTC1"}
\* adminNotes of the body: "" stands for a body without the field.
AdminNotes == {"", "note"}
\* status of an adjudication body; "pending" is not in the schema's enum.
RequestedStatuses == {"approved", "rejected", "pending"}
RequestedWithdrawalIds == {1, 2}
\* Target of a status change ("u9" is no row of the users table) and the
\* status asked for; "deleted" is not in the schema's enum.
RequestedUserIds == {"u1", "u2", "u9"}
RequestedUserStatuses == {"active", "banned", "suspended", "deleted"}

VARIABLES
    users,              \* users table: id -> row
    surveys,            \* surveys table: id -> row
    surveyResponses,    \* survey_responses table, in insertion (serial id) order
    transactions,       \* transactions table, in insertion order
    withdrawalRequests, \* withdrawal_requests table; the serial id is the index
    securityLogs,       \* security_logs table, in insertion order
    req                 \* per worker: the request being handled and its locals

vars == <<users, surveys, surveyResponses, transactions, withdrawalRequests,
          securityLogs, req>>

\* The six tables as one value (for the snapshot a request takes on arrival).
Store ==
    [users |-> users, surveys |-> surveys, surveyResponses |-> surveyResponses,
     transactions |-> transactions, withdrawalRequests |-> withdrawalRequests,
     securityLogs |-> securityLogs]

\* ------------------------------------------------------------ small helpers
Merge(a, b) == [f \in DOMAIN a |-> IF f \in DOMAIN b THEN b[f] ELSE a[f]]

Indices(s) == 1..Len(s)

\* A worker with no request.
IdleRequest ==
    [pc |-> "idle", route |-> "", userId |-> "", user |-> <<>>,
     surveyId |-> 0, responses |-> FALSE,
     amount |-> 0, walletAddress |-> "",
     withdrawalId |-> 0, status |-> "", adminNotes |-> "",
     targetUserId |-> "",
     survey |-> <<>>, existingResponses |-> <<>>, response |-> <<>>,
     csrSurvey |-> <<>>,
     pendingWithdrawal |-> <<>>, withdrawal |-> <<>>, dbUser |-> <<>>,
     email |-> "", firstName |-> "",
     totalUsersResult |-> {}, pendingWithdrawalsResult |-> <<>>,
     body |-> <<>>,
     res |-> 0, pre |-> <<>>]

\* The worker moves on: its locals change as given, nothing is answered yet.
Continue(p, changes) == req' = [req EXCEPT ![p] = Merge(@, changes)]

\* `return res.status(code).json(...)` / `res.json(...)`: the handler ends.
Reply(p, code) == req' = [req EXCEPT ![p] = Merge(@, [pc |-> "done", res |-> code])]

UnchangedStore ==
    UNCHANGED <<users, surveys, surveyResponses, transactions,
                withdrawalRequests, securityLogs>>

\* --------------------------------------------------------- schema (zod) parse
\* insertSurveyResponseSchema: surveyId a number, responses present.
\* parseInt of the path segment gives a number for every id the model sends.
ValidSurveyResponse(r) == r.responses

\* insertWithdrawalRequestSchema: amount an integer, walletAddress a string.
ValidWithdrawalRequest(r) == r.walletAddress # ""

\* Variant: the enum also lists "pending".
ValidWithdrawalStatus_withPending(r) == r.status \in {"approved", "rejected", "pending"}

\* updateWithdrawalStatusSchema: status in the enum, adminNotes optional.
ValidWithdrawalStatus(r) == r.status \in {"approved", "rejected"}

\* updateUserStatusSchema: status in the enum.
ValidUserStatus(r) == r.status \in {"active", "banned", "suspended"}

\* ------------------------------------------------------------ storage: reads
getUser(id) == IF id \in DOMAIN users THEN <<users[id]>> ELSE <<>>

getSurvey(id) == IF id \in DOMAIN surveys THEN <<surveys[id]>> ELSE <<>>

getUserSurveyResponses(userId) ==
    LET OfUser(r) == r.userId = userId IN SelectSeq(surveyResponses, OfUser)

\* Variant: the status literal is misspelt, so no row ever matches.
getUserPendingWithdrawal_misspelt(userId) ==
    LET hits == {i \in Indices(withdrawalRequests) :
                    /\ withdrawalRequests[i].userId = userId
                    /\ withdrawalRequests[i].status = "Pending"}
    IN IF hits = {} THEN <<>>
       ELSE LET i == CHOOSE j \in hits : \A k \in hits : j <= k
            IN <<withdrawalRequests[i]>>

\* `const [withdrawal] = ...`: the first matching row, with its serial id.
getUserPendingWithdrawal(userId) ==
    LET hits == {i \in Indices(withdrawalRequests) :
                    /\ withdrawalRequests[i].userId = userId
                    /\ withdrawalRequests[i].status = "pending"}
    IN IF hits = {} THEN <<>>
       ELSE LET i == CHOOSE j \in hits : \A k \in hits : j <= k
            IN <<withdrawalRequests[i]>>

\* ----------------------------------------------------------- storage: writes
\* UPDATE users SET gem_balance = amount WHERE id = userId
updateUserGemBalance(userId, amount) ==
    [u \in DOMAIN users |->
        IF u = userId THEN [users[u] EXCEPT !.gemBalance = amount] ELSE users[u]]

\* UPDATE users SET status = ... WHERE id = userId
updateUserStatus(userId, statusUpdate) ==
    [u \in DOMAIN users |->
        IF u = userId THEN [users[u] EXCEPT !.status = statusUpdate.status] ELSE users[u]]

\* INSERT INTO transactions; the columns a caller leaves out are null (0).
createTransaction(t) ==
    Append(transactions,
           [userId |-> t.userId, type |-> t.type, amount |-> t.amount,
            surveyId |-> IF "surveyId" \in DOMAIN t THEN t.surveyId ELSE 0,
            withdrawalId |-> IF "withdrawalId" \in DOMAIN t THEN t.withdrawalId ELSE 0])

createSecurityLog(l) ==
    Append(securityLogs, [userId |-> l.userId, action |-> l.action])

\* INSERT INTO withdrawal_requests; status takes the column default.
NewWithdrawalRow(userId, request) ==
    [id |-> Len(withdrawalRequests) + 1, userId |-> userId,
     amount |-> request.amount, walletAddress |-> request.walletAddress,
     status |-> "pending", adminNotes |-> "", processedBy |-> ""]

createWithdrawalRequest(userId, request) ==
    Append(withdrawalRequests, NewWithdrawalRow(userId, request))

\* UPDATE withdrawal_requests SET status, [adminNotes,] processedBy
\* WHERE id = id; a key the body leaves out is not part of the SET.
UpdatedWithdrawalRow(w, status, processedBy) ==
    [w EXCEPT !.status = status.status,
              !.adminNotes = IF status.adminNotes = "" THEN @ ELSE status.adminNotes,
              !.processedBy = processedBy]

updateWithdrawalStatus(id, status, processedBy) ==
    [i \in Indices(withdrawalRequests) |->
        IF withdrawalRequests[i].id = id
        THEN UpdatedWithdrawalRow(withdrawalRequests[i], status, processedBy)
        ELSE withdrawalRequests[i]]

\* --------------------------------------------------------------------- Init
Init ==
    /\ users = [u \in Users |->
                  [id |-> u,
                   email |-> IF u \in AdminUsers THEN "5minutessurvey@gmail.com"
                             ELSE "u1@example.com",
                   firstName |-> "Ann",
                   gemBalance |-> 0, status |-> "active",
                   isAdmin |-> (u \in AdminUsers)]]
    /\ surveys = [s \in SurveyIds |->
                  [id |-> s, reward |-> SurveyReward(s), participantCount |-> 0]]
    /\ surveyResponses = <<>>
    /\ transactions = <<>>
    /\ withdrawalRequests = <<>>
    /\ securityLogs = <<>>
    /\ req = [p \in Procs |-> IdleRequest]

\* Callers: the signed-in users, and "" for a request without a session.
Callers == Users \cup {""}

\* ------------------------------------------------------ authorization gate
\* A session is present exactly when the caller is a signed-in user.
isAuthenticated(caller) == caller \in DOMAIN users

\* The session's user has the admin flag.
isAdmin(caller) == isAuthenticated(caller) /\ users[caller].isAdmin

\* A request arrives at an idle worker.  The gate runs first; when it lets the
\* request through, req.user is the caller's row as read at this moment.
Arrive(p, route, caller, adminOnly, body, first) ==
    /\ req[p].pc = "idle"
    /\ Len(securityLogs) < MaxLogs
    /\ LET r == Merge(Merge(IdleRequest, body),
                      [route |-> route, userId |-> caller, pre |-> <<Store>>])
       IN  IF ~isAuthenticated(caller)
           THEN req' = [req EXCEPT ![p] = Merge(r, [pc |-> "done", res |-> 401])]
           ELSE IF adminOnly /\ ~isAdmin(caller)
           THEN req' = [req EXCEPT ![p] = Merge(r, [pc |-> "done", res |-> 403])]
           ELSE req' = [req EXCEPT ![p] = Merge(r, [pc |-> first, user |-> getUser(caller)])]
    /\ UnchangedStore

\* The response has been sent; the worker is free again.
Finish(p) ==
    /\ req[p].pc = "done"
    /\ req' = [req EXCEPT ![p] = IdleRequest]
    /\ UnchangedStore

\* ============================================ POST /api/surveys/:id/complete
CompleteSurveyFrom(p, callers, surveyIds, bodies) ==
    \E caller \in callers, surveyId \in surveyIds, responses \in bodies :
        Arrive(p, "complete_survey", caller, FALSE,
               [surveyId |-> surveyId, responses |-> responses],
               "complete_getSurvey")

RequestCompleteSurvey(p) == CompleteSurveyFrom(p, Callers, RequestedSurveyIds, BOOLEAN)

\* insertSurveyResponseSchema.parse(...); storage.getSurvey(surveyId)
CompleteSurvey_getSurvey(p) ==
    /\ req[p].pc = "complete_getSurvey"
    /\ IF ~ValidSurveyResponse(req[p])
       THEN Reply(p, 500)
       ELSE Continue(p, [pc |-> "complete_getUserSurveyResponses",
                         survey |-> getSurvey(req[p].surveyId)])
    /\ UnchangedStore

\* if (!survey) 404; storage.getUserSurveyResponses(userId)
CompleteSurvey_getUserSurveyResponses(p) ==
    /\ req[p].pc = "complete_getUserSurveyResponses"
    /\ IF req[p].survey = <<>>
       THEN Reply(p, 404)
       ELSE Continue(p, [pc |-> "complete_createSurveyResponse",
                         existingResponses |-> getUserSurveyResponses(req[p].userId)])
    /\ UnchangedStore

\* Variant: the scan compares against the response's own id column, so a
\* prior response is found only by accident.
alreadyCompleted_wrongColumn(existingResponses, surveyId) ==
    \E i \in Indices(existingResponses) : existingResponses[i].gemAwarded = surveyId

\* existingResponses.some(r => r.surveyId === surveyId)
alreadyCompleted(existingResponses, surveyId) ==
    \E i \in Indices(existingResponses) : existingResponses[i].surveyId = surveyId

\* if (alreadyCompleted) 400; createSurveyResponse: the INSERT
CompleteSurvey_createSurveyResponse(p) ==
    /\ req[p].pc = "complete_createSurveyResponse"
    /\ IF alreadyCompleted(req[p].existingResponses, req[p].surveyId)
       THEN /\ Reply(p, 400)
            /\ UNCHANGED surveyResponses
       ELSE LET row == [userId |-> req[p].userId, surveyId |-> req[p].surveyId,
                        gemAwarded |-> req[p].survey[1].reward]
            IN  /\ surveyResponses' = Append(surveyResponses, row)
                /\ Continue(p, [pc |-> "createSurveyResponse_getUser",
                                response |-> <<row>>])
    /\ UNCHANGED <<users, surveys, transactions, withdrawalRequests, securityLogs>>

\* createSurveyResponse: const user = await this.getUser(userId)
createSurveyResponse_getUser(p) ==
    /\ req[p].pc = "createSurveyResponse_getUser"
    /\ Continue(p, [pc |-> "createSurveyResponse_updateUserGemBalance",
                    dbUser |-> getUser(req[p].userId)])
    /\ UnchangedStore

\* Variant: the award overwrites the balance instead of being added to it.
creditedBalance_overwrite(user, gemAwarded) == gemAwarded

\* createSurveyResponse: `user.gemBalance + response.gemAwarded`
creditedBalance(user, gemAwarded) == user.gemBalance + gemAwarded

\* createSurveyResponse: if (user) updateUserGemBalance(userId, balance + award)
createSurveyResponse_updateUserGemBalance(p) ==
    /\ req[p].pc = "createSurveyResponse_updateUserGemBalance"
    /\ users' = IF req[p].dbUser # <<>>
                THEN updateUserGemBalance(req[p].userId,
                         creditedBalance(req[p].dbUser[1], req[p].response[1].gemAwarded))
                ELSE users
    /\ Continue(p, [pc |-> "createSurveyResponse_getSurvey"])
    /\ UNCHANGED <<surveys, surveyResponses, transactions, withdrawalRequests,
                   securityLogs>>

\* createSurveyResponse: const survey = await this.getSurvey(response.surveyId)
createSurveyResponse_getSurvey(p) ==
    /\ req[p].pc = "createSurveyResponse_getSurvey"
    /\ Continue(p, [pc |-> "createSurveyResponse_updateSurvey",
                    csrSurvey |-> getSurvey(req[p].response[1].surveyId)])
    /\ UnchangedStore

\* createSurveyResponse: if (survey) SET participantCount = count + 1
createSurveyResponse_updateSurvey(p) ==
    /\ req[p].pc = "createSurveyResponse_updateSurvey"
    /\ surveys' = IF req[p].csrSurvey # <<>>
                  THEN [s \in DOMAIN surveys |->
                          IF s = req[p].response[1].surveyId
                          THEN [surveys[s] EXCEPT !.participantCount =
                                    req[p].csrSurvey[1].participantCount + 1]
                          ELSE surveys[s]]
                  ELSE surveys
    /\ Continue(p, [pc |-> "complete_createTransaction"])
    /\ UNCHANGED <<users, surveyResponses, transactions, withdrawalRequests,
                   securityLogs>>

\* storage.createTransaction({type: "survey_reward", amount: survey.reward, ...})
CompleteSurvey_createTransaction(p) ==
    /\ req[p].pc = "complete_createTransaction"
    /\ transactions' = createTransaction(
           [userId |-> req[p].userId, type |-> "survey_reward",
            amount |-> req[p].survey[1].reward, surveyId |-> req[p].surveyId])
    /\ Continue(p, [pc |-> "complete_createSecurityLog"])
    /\ UNCHANGED <<users, surveys, surveyResponses, withdrawalRequests, securityLogs>>

\* storage.createSecurityLog({action: "survey_completed"}); res.json(...)
CompleteSurvey_createSecurityLog(p) ==
    /\ req[p].pc = "complete_createSecurityLog"
    /\ securityLogs' = createSecurityLog(
           [userId |-> req[p].userId, action |-> "survey_completed"])
    /\ Reply(p, 200)
    /\ UNCHANGED <<users, surveys, surveyResponses, transactions, withdrawalRequests>>

\* ====================================================== POST /api/withdrawals
WithdrawalFrom(p, callers, amounts, walletAddresses) ==
    \E caller \in callers, amount \in amounts, walletAddress \in walletAddresses :
        Arrive(p, "withdrawal", caller, FALSE,
               [amount |-> amount, walletAddress |-> walletAddress],
               "withdrawal_getUserPendingWithdrawal")

RequestWithdrawal(p) == WithdrawalFrom(p, Callers, WithdrawAmounts, WalletAddresses)

\* insertWithdrawalRequestSchema.parse(req.body); getUserPendingWithdrawal(userId)
Withdrawal_getUserPendingWithdrawal(p) ==
    /\ req[p].pc = "withdrawal_getUserPendingWithdrawal"
    /\ IF ~ValidWithdrawalRequest(req[p])
       THEN Reply(p, 500)
       ELSE Continue(p, [pc |-> "withdrawal_createWithdrawalRequest",
                         pendingWithdrawal |-> getUserPendingWithdrawal(req[p].userId)])
    /\ UnchangedStore

\* Variant: the result of the pending lookup is ignored.
hasPendingWithdrawal_ignored(r) == FALSE

\* `if (pendingWithdrawal)`: routes.ts:133
hasPendingWithdrawal(r) == r.pendingWithdrawal # <<>>

\* Variant: the operands of the comparison are swapped.
insufficientBalance_swapped(r) == r.amount < r.user[1].gemBalance

\* `if (user.gemBalance < validatedData.amount)`: routes.ts:140
insufficientBalance(r) == r.user[1].gemBalance < r.amount

\* Variant: only non-positive amounts are refused.
belowMinimum_positive(r) == r.amount < 1

\* `if (validatedData.amount < 100)`: routes.ts:147
belowMinimum(r) == r.amount < MinWithdrawal

\* Variant: the balance is written back without the deduction.
debitedBalance_same(user, amount) == user.gemBalance

\* Variant: an atomic decrement of the stored balance.
debitedBalance_atomic(user, amount) == users[user.id].gemBalance - amount

\* `user.gemBalance - validatedData.amount`: routes.ts:166
debitedBalance(user, amount) == user.gemBalance - amount

\* Variant: the insert itself refuses a second pending row of the user (as a
\* uniqueness constraint would), whatever the earlier lookup returned.
Withdrawal_createWithdrawalRequest_constrained(p) ==
    /\ req[p].pc = "withdrawal_createWithdrawalRequest"
    /\ IF \/ hasPendingWithdrawal(req[p])
          \/ insufficientBalance(req[p])
          \/ belowMinimum(req[p])
          \/ getUserPendingWithdrawal(req[p].userId) # <<>>
       THEN /\ Reply(p, 400)
            /\ UNCHANGED withdrawalRequests
       ELSE /\ withdrawalRequests' = createWithdrawalRequest(req[p].userId, req[p])
            /\ Continue(p, [pc |-> "withdrawal_createTransaction",
                            withdrawal |-> <<NewWithdrawalRow(req[p].userId, req[p])>>])
    /\ UNCHANGED <<users, surveys, surveyResponses, transactions, securityLogs>>

\* the pre-checks; storage.createWithdrawalRequest(userId, validatedData)
Withdrawal_createWithdrawalRequest(p) ==
    /\ req[p].pc = "withdrawal_createWithdrawalRequest"
    /\ IF \/ hasPendingWithdrawal(req[p])
          \/ insufficientBalance(req[p])
          \/ belowMinimum(req[p])
       THEN /\ Reply(p, 400)
            /\ UNCHANGED withdrawalRequests
       ELSE /\ withdrawalRequests' = createWithdrawalRequest(req[p].userId, req[p])
            /\ Continue(p, [pc |-> "withdrawal_createTransaction",
                            withdrawal |-> <<NewWithdrawalRow(req[p].userId, req[p])>>])
    /\ UNCHANGED <<users, surveys, surveyResponses, transactions, securityLogs>>

\* Variant: the ledger row carries the amount without the sign.
withdrawalLedgerAmount_unsigned(amount) == amount

\* `amount: -validatedData.amount`: routes.ts:160
withdrawalLedgerAmount(amount) == -amount

\* storage.createTransaction({type: "withdrawal_request", amount: -amount, ...})
Withdrawal_createTransaction(p) ==
    /\ req[p].pc = "withdrawal_createTransaction"
    /\ transactions' = createTransaction(
           [userId |-> req[p].userId, type |-> "withdrawal_request",
            amount |-> withdrawalLedgerAmount(req[p].amount),
            withdrawalId |-> req[p].withdrawal[1].id])
    /\ Continue(p, [pc |-> "withdrawal_updateUserGemBalance"])
    /\ UNCHANGED <<users, surveys, surveyResponses, withdrawalRequests, securityLogs>>

\* storage.updateUserGemBalance(userId, user.gemBalance - validatedData.amount)
Withdrawal_updateUserGemBalance(p) ==
    /\ req[p].pc = "withdrawal_updateUserGemBalance"
    /\ users' = updateUserGemBalance(req[p].userId,
                                     debitedBalance(req[p].user[1], req[p].amount))
    /\ Continue(p, [pc |-> "withdrawal_createSecurityLog"])
    /\ UNCHANGED <<surveys, surveyResponses, transactions, withdrawalRequests,
                   securityLogs>>

\* storage.createSecurityLog({action: "withdrawal_requested"}); res.json(withdrawal)
Withdrawal_createSecurityLog(p) ==
    /\ req[p].pc = "withdrawal_createSecurityLog"
    /\ securityLogs' = createSecurityLog(
           [userId |-> req[p].userId, action |-> "withdrawal_requested"])
    /\ Reply(p, 200)
    /\ UNCHANGED <<users, surveys, surveyResponses, transactions, withdrawalRequests>>

\* ================================================ POST /api/offerwall/complete
\* The two offerwall routes run the same three store calls; `route` is
\* "offerwall_complete" (body field reward) or "offerwall_earnings" (amount).
OfferwallFrom(p, routes, callers, rewards) ==
    \E route \in routes, caller \in callers, reward \in rewards :
        Arrive(p, route, caller, FALSE,
               [amount |-> reward], "offerwall_updateUserGemBalance")

RequestOfferwall(p) == OfferwallFrom(p, {"offerwall_complete"}, Callers, OfferRewards)


\* Variant: only a positive reward is credited.
offerwallBalance_positive(user, reward) ==
    IF reward > 0 THEN user.gemBalance + reward ELSE user.gemBalance

\* `user.gemBalance + reward` (routes.ts:203), `user.gemBalance + amount` (:238)
offerwallBalance(user, reward) == user.gemBalance + reward

\* storage.updateUserGemBalance(userId, user.gemBalance + reward)
Offerwall_updateUserGemBalance(p) ==
    /\ req[p].pc = "offerwall_updateUserGemBalance"
    /\ users' = updateUserGemBalance(req[p].userId,
                                     offerwallBalance(req[p].user[1], req[p].amount))
    /\ Continue(p, [pc |-> "offerwall_createTransaction"])
    /\ UNCHANGED <<surveys, surveyResponses, transactions, withdrawalRequests,
                   securityLogs>>

\* storage.createTransaction({type: "offerwall_reward", amount: reward, ...})
Offerwall_createTransaction(p) ==
    /\ req[p].pc = "offerwall_createTransaction"
    /\ transactions' = createTransaction(
           [userId |-> req[p].userId, type |-> "offerwall_reward",
            amount |-> req[p].amount])
    /\ Continue(p, [pc |-> "offerwall_createSecurityLog"])
    /\ UNCHANGED <<users, surveys, surveyResponses, withdrawalRequests, securityLogs>>

\* storage.createSecurityLog({action: "offerwall_completed"}); res.json(...)
\* (action "offerwall_earnings" on the earnings route)
Offerwall_createSecurityLog(p) ==
    /\ req[p].pc = "offerwall_createSecurityLog"
    /\ securityLogs' = createSecurityLog(
           [userId |-> req[p].userId,
            action |-> IF req[p].route = "offerwall_complete"
                       THEN "offerwall_completed" ELSE "offerwall_earnings"])
    /\ Reply(p, 200)
    /\ UNCHANGED <<users, surveys, surveyResponses, transactions, withdrawalRequests>>

\* ============================================ PATCH /api/admin/withdrawals/:id
\* Variant: the route is registered behind isAuthenticated instead of isAdmin.
AdjudicateFrom_anyUser(p, callers, ids, statuses, notes) ==
    \E caller \in callers, id \in ids, status \in statuses, adminNotes \in notes :
        Arrive(p, "adjudicate", caller, FALSE,
               [withdrawalId |-> id, status |-> status, adminNotes |-> adminNotes],
               "adjudicate_updateWithdrawalStatus")

\* app.patch("/api/admin/withdrawals/:id", isAdmin, ...)
AdjudicateFrom(p, callers, ids, statuses, notes) ==
    \E caller \in callers, id \in ids, status \in statuses, adminNotes \in notes :
        Arrive(p, "adjudicate", caller, TRUE,
               [withdrawalId |-> id, status |-> status, adminNotes |-> adminNotes],
               "adjudicate_updateWithdrawalStatus")

RequestAdjudicate(p) ==
    AdjudicateFrom(p, Callers, RequestedWithdrawalIds, RequestedStatuses, AdminNotes)

\* updateWithdrawalStatusSchema.parse(req.body);
\* storage.updateWithdrawalStatus(withdrawalId, validatedData, adminId)
Adjudicate_updateWithdrawalStatus(p) ==
    /\ req[p].pc = "adjudicate_updateWithdrawalStatus"
    /\ IF ~ValidWithdrawalStatus(req[p])
       THEN /\ Reply(p, 500)
            /\ UNCHANGED withdrawalRequests
       ELSE LET after == updateWithdrawalStatus(req[p].withdrawalId, req[p], req[p].userId)
                HasId(w) == w.id = req[p].withdrawalId
            IN  /\ withdrawalRequests' = after
                /\ Continue(p, [pc |-> "adjudicate_createTransaction",
                                withdrawal |-> SelectSeq(after, HasId)])
    /\ UNCHANGED <<users, surveys, surveyResponses, transactions, securityLogs>>

\* Variant: the ledger row carries the withdrawal's amount for either decision.
decisionAmount_always(status, withdrawal) == withdrawal.amount

\* amount: validatedData.status === "approved" ? 0 : withdrawal.amount
decisionAmount(status, withdrawal) == IF status = "approved" THEN 0 ELSE withdrawal.amount

\* storage.createTransaction({userId: withdrawal.userId, ...}); with no row
\* returned, `withdrawal.userId` throws and the catch answers 500.
Adjudicate_createTransaction(p) ==
    /\ req[p].pc = "adjudicate_createTransaction"
    /\ IF req[p].withdrawal = <<>>
       THEN /\ Reply(p, 500)
            /\ UNCHANGED transactions
       ELSE LET withdrawal == req[p].withdrawal[1] IN
            /\ transactions' = createTransaction(
                   [userId |-> withdrawal.userId,
                    type |-> IF req[p].status = "approved"
                             THEN "withdrawal_approved" ELSE "withdrawal_rejected",
                    amount |-> decisionAmount(req[p].status, withdrawal),
                    withdrawalId |-> withdrawal.id])
            /\ Continue(p, [pc |-> IF req[p].status = "rejected"
                                   THEN "adjudicate_getUser"
                                   ELSE "adjudicate_createSecurityLog"])
    /\ UNCHANGED <<users, surveys, surveyResponses, withdrawalRequests, securityLogs>>

\* Variant: the refund goes to the user of the session, the deciding admin.
refundUserId_session(r) == r.userId

\* `withdrawal.userId`: the user whose balance is read and credited back.
refundUserId(r) == r.withdrawal[1].userId

\* if (status === "rejected") const user = await storage.getUser(withdrawal.userId)
Adjudicate_getUser(p) ==
    /\ req[p].pc = "adjudicate_getUser"
    /\ Continue(p, [pc |-> "adjudicate_updateUserGemBalance",
                    dbUser |-> getUser(refundUserId(req[p]))])
    /\ UnchangedStore

\* Variant: the balance is set to the refunded amount.
refundedBalance_overwrite(user, withdrawal) == withdrawal.amount

\* `user.gemBalance + withdrawal.amount`: routes.ts:314
refundedBalance(user, withdrawal) == user.gemBalance + withdrawal.amount

\* if (user) updateUserGemBalance(withdrawal.userId, user.gemBalance + withdrawal.amount)
Adjudicate_updateUserGemBalance(p) ==
    /\ req[p].pc = "adjudicate_updateUserGemBalance"
    /\ users' = IF req[p].dbUser # <<>>
                THEN updateUserGemBalance(refundUserId(req[p]),
                         refundedBalance(req[p].dbUser[1], req[p].withdrawal[1]))
                ELSE users
    /\ Continue(p, [pc |-> "adjudicate_createSecurityLog"])
    /\ UNCHANGED <<surveys, surveyResponses, transactions, withdrawalRequests,
                   securityLogs>>

\* storage.createSecurityLog({userId: adminId, action: `withdrawal_${status}`})
Adjudicate_createSecurityLog(p) ==
    /\ req[p].pc = "adjudicate_createSecurityLog"
    /\ securityLogs' = createSecurityLog(
           [userId |-> req[p].userId,
            action |-> IF req[p].status = "approved"
                       THEN "withdrawal_approved" ELSE "withdrawal_rejected"])
    /\ Reply(p, 200)
    /\ UNCHANGED <<users, surveys, surveyResponses, transactions, withdrawalRequests>>

\* ========================================== PATCH /api/admin/users/:id/status
\* app.patch("/api/admin/users/:id/status", isAdmin, ...)
UserStatusFrom(p, callers, ids, statuses) ==
    \E caller \in callers, id \in ids, status \in statuses :
        Arrive(p, "user_status", caller, TRUE,
               [targetUserId |-> id, status |-> status],
               "userStatus_updateUserStatus")

RequestUserStatus(p) ==
    UserStatusFrom(p, Callers, RequestedUserIds, RequestedUserStatuses)

\* updateUserStatusSchema.parse(req.body); storage.updateUserStatus(userId, data):
\* `const [user] = ...returning()` is the updated row, or undefined.
UserStatus_updateUserStatus(p) ==
    /\ req[p].pc = "userStatus_updateUserStatus"
    /\ IF ~ValidUserStatus(req[p])
       THEN /\ Reply(p, 500)
            /\ UNCHANGED users
       ELSE LET after == updateUserStatus(req[p].targetUserId, req[p])
            IN  /\ users' = after
                /\ Continue(p, [pc |-> "userStatus_createSecurityLog",
                                dbUser |-> IF req[p].targetUserId \in DOMAIN after
                                           THEN <<after[req[p].targetUserId]>>
                                           ELSE <<>>])
    /\ UNCHANGED <<surveys, surveyResponses, transactions, withdrawalRequests,
                   securityLogs>>

\* storage.createSecurityLog({action: "user_status_changed"}); res.json(user):
\* the answer is 200 whether or not a row was updated.
UserStatus_createSecurityLog(p) ==
    /\ req[p].pc = "userStatus_createSecurityLog"
    /\ securityLogs' = createSecurityLog(
           [userId |-> req[p].userId, action |-> "user_status_changed"])
    /\ Reply(p, 200)
    /\ UNCHANGED <<users, surveys, surveyResponses, transactions, withdrawalRequests>>

\* ===================================================================== Next
\* The steps of each handler after the request has arrived.
CompleteSurveySteps(p) ==
    \/ CompleteSurvey_getSurvey(p)
    \/ CompleteSurvey_getUserSurveyResponses(p)
    \/ CompleteSurvey_createSurveyResponse(p)
    \/ createSurveyResponse_getUser(p)
    \/ createSurveyResponse_updateUserGemBalance(p)
    \/ createSurveyResponse_getSurvey(p)
    \/ createSurveyResponse_updateSurvey(p)
    \/ CompleteSurvey_createTransaction(p)
    \/ CompleteSurvey_createSecurityLog(p)

WithdrawalSteps(p) ==
    \/ Withdrawal_getUserPendingWithdrawal(p)
    \/ Withdrawal_createWithdrawalRequest(p)
    \/ Withdrawal_createTransaction(p)
    \/ Withdrawal_updateUserGemBalance(p)
    \/ Withdrawal_createSecurityLog(p)

OfferwallSteps(p) ==
    \/ Offerwall_updateUserGemBalance(p)
    \/ Offerwall_createTransaction(p)
    \/ Offerwall_createSecurityLog(p)

AdjudicateSteps(p) ==
    \/ Adjudicate_updateWithdrawalStatus(p)
    \/ Adjudicate_createTransaction(p)
    \/ Adjudicate_getUser(p)
    \/ Adjudicate_updateUserGemBalance(p)
    \/ Adjudicate_createSecurityLog(p)

UserStatusSteps(p) ==
    \/ UserStatus_updateUserStatus(p)
    \/ UserStatus_createSecurityLog(p)

\* Everything worker p can do on the ledger routes.
Handle(p) ==
    \/ RequestCompleteSurvey(p)
    \/ CompleteSurveySteps(p)
    \/ RequestWithdrawal(p)
    \/ WithdrawalSteps(p)
    \/ RequestOfferwall(p)
    \/ OfferwallSteps(p)
    \/ RequestAdjudicate(p)
    \/ AdjudicateSteps(p)
    \/ Finish(p)

\* Requests handled one at a time: a single worker takes the next request
\* only after it has answered the one before.
Next == Handle("p1")

Spec == Init /\ [][Next]_vars

\* ------------------------------------------------ the offerwall routes alone
\* One worker; clients report any of ClientRewards on either route.
OfferwallComplete(p) ==
    OfferwallFrom(p, {"offerwall_complete"}, Callers, ClientRewards)

OfferwallEarnings(p) ==
    OfferwallFrom(p, {"offerwall_earnings"}, Callers, ClientRewards)

NextOfferwall ==
    \/ OfferwallComplete("p1")
    \/ OfferwallEarnings("p1")
    \/ OfferwallSteps("p1")
    \/ Finish("p1")

SpecOfferwall == Init /\ [][NextOfferwall]_vars

\* ------------------------------------------------ concurrent requests
\* Two workers; a store call of one may run between any two store calls of
\* the other.  The clients send well-formed requests only: survey 1 by either
\* user, and a withdrawal of 100 or an offerwall credit of 100 by "u1".
InFlight == {q \in Procs : req[q].pc \notin {"idle", "done"}}

RaceOpen == Len(securityLogs) + Cardinality(InFlight) < MaxRaceLogs

ConcurrentCompleteSurvey(p) ==
    RaceOpen /\ CompleteSurveyFrom(p, Users, {1}, {TRUE})

ConcurrentWithdrawal(p) ==
    RaceOpen /\ WithdrawalFrom(p, {"u1"}, {MinWithdrawal}, {"LTC1"})

ConcurrentOfferwall(p) ==
    RaceOpen /\ OfferwallFrom(p, {"offerwall_complete"}, {"u1"}, {100})

NextConcurrent ==
    \E p \in Procs :
        \/ ConcurrentCompleteSurvey(p)
        \/ CompleteSurveySteps(p)
        \/ ConcurrentWithdrawal(p)
        \/ WithdrawalSteps(p)
        \/ ConcurrentOfferwall(p)
        \/ OfferwallSteps(p)
        \/ Finish(p)

SpecConcurrent == Init /\ [][NextConcurrent]_vars

\* The admin routes, one request at a time, next to the two user routes that
\* give them something to decide: an offerwall credit of 100 to "u1" and a
\* withdrawal of the minimum by "u1".
AdminOfferwall(p) == OfferwallFrom(p, {"offerwall_complete"}, {"u1"}, OfferRewards)

AdminWithdrawal(p) == WithdrawalFrom(p, {"u1"}, {MinWithdrawal}, {"LTC1"})

NextAdmin ==
    \/ AdminOfferwall("p1")
    \/ OfferwallSteps("p1")
    \/ AdminWithdrawal("p1")
    \/ WithdrawalSteps("p1")
    \/ RequestAdjudicate("p1")
    \/ AdjudicateSteps("p1")
    \/ RequestUserStatus("p1")
    \/ UserStatusSteps("p1")
    \/ Finish("p1")

SpecAdmin == Init /\ [][NextAdmin]_vars

\* ------------------------------------------------ store calls that fail
\* Rows in the three tables that grow when a handler is cut short.
MaxFaultRows == 7

FaultRows == Len(surveyResponses) + Len(transactions) + Len(withdrawalRequests)

\* Worker p is about to make the store call its position names: none of the
\* early returns of the synchronous code before the call applies.
MakesStoreCall(p) ==
    LET r == req[p] IN
    /\ r.pc \notin {"idle", "done"}
    /\ r.pc = "complete_getSurvey" => ValidSurveyResponse(r)
    /\ r.pc = "complete_getUserSurveyResponses" => r.survey # <<>>
    /\ r.pc = "complete_createSurveyResponse"
          => ~alreadyCompleted(r.existingResponses, r.surveyId)
    /\ r.pc = "createSurveyResponse_updateUserGemBalance" => r.dbUser # <<>>
    /\ r.pc = "createSurveyResponse_updateSurvey" => r.csrSurvey # <<>>
    /\ r.pc = "withdrawal_getUserPendingWithdrawal" => ValidWithdrawalRequest(r)
    /\ r.pc = "withdrawal_createWithdrawalRequest"
          => ~(hasPendingWithdrawal(r) \/ insufficientBalance(r) \/ belowMinimum(r))
    /\ r.pc = "adjudicate_updateWithdrawalStatus" => ValidWithdrawalStatus(r)
    /\ r.pc = "adjudicate_createTransaction" => r.withdrawal # <<>>
    /\ r.pc = "adjudicate_updateUserGemBalance" => r.dbUser # <<>>

\* Variant: the catch deletes the withdrawal row the request had inserted.
StoreCallFails_rowRemoved(p) ==
    /\ MakesStoreCall(p)
    /\ FaultRows < MaxFaultRows
    /\ Reply(p, 500)
    /\ withdrawalRequests' = req[p].pre[1].withdrawalRequests
    /\ UNCHANGED <<users, surveys, surveyResponses, transactions, securityLogs>>

\* Variant: the handler runs in one database transaction, so a failed call
\* restores the tables to what they were when the request arrived.
StoreCallFails_rollback(p) ==
    /\ MakesStoreCall(p)
    /\ FaultRows < MaxFaultRows
    /\ Reply(p, 500)
    /\ users' = req[p].pre[1].users
    /\ surveys' = req[p].pre[1].surveys
    /\ surveyResponses' = req[p].pre[1].surveyResponses
    /\ transactions' = req[p].pre[1].transactions
    /\ withdrawalRequests' = req[p].pre[1].withdrawalRequests
    /\ securityLogs' = req[p].pre[1].securityLogs

\* The awaited store call rejects: the handler's catch answers 500, and what
\* the earlier calls of the request wrote stays written.
StoreCallFails(p) ==
    /\ MakesStoreCall(p)
    /\ FaultRows < MaxFaultRows
    /\ Reply(p, 500)
    /\ UnchangedStore

\* One request at a time, well-formed requests only, any store call may fail:
\* "u1" completes surveys and asks to withdraw the minimum, "u2" decides
\* withdrawal 1.
FaultCompleteSurvey(p) == CompleteSurveyFrom(p, {"u1"}, SurveyIds, {TRUE})

FaultWithdrawal(p) == WithdrawalFrom(p, {"u1"}, {MinWithdrawal}, {"LTC1"})

FaultAdjudicate(p) == AdjudicateFrom(p, AdminUsers, {1}, {"approved", "rejected"}, {""})

NextFault ==
    \/ FaultCompleteSurvey("p1")
    \/ CompleteSurveySteps("p1")
    \/ FaultWithdrawal("p1")
    \/ WithdrawalSteps("p1")
    \/ FaultAdjudicate("p1")
    \/ AdjudicateSteps("p1")
    \/ StoreCallFails("p1")
    \/ Finish("p1")

SpecFault == Init /\ [][NextFault]_vars

\* ------------------------------------------------------ GET /api/admin/stats
\* getUserStats multiplies the gem total by 0.05 (part_000:307); the project
\* documentation gives 1000 gems = 1 USD (replit.md:27).  Money is counted in
\* thousandths of a dollar, so the two factors are 50 and 1 per gem.
PayoutMillsPerGem == 50
DocumentedMillsPerGem == 1

\* Number.prototype.toFixed(2): the amount rounded to whole cents, half away
\* from zero; the result is the number of cents.
toFixed2(mills) ==
    IF mills >= 0 THEN (mills + 5) \div 10 ELSE 0 - ((5 - mills) \div 10)

\* approvedWithdrawals.reduce((sum, w) => sum + w.amount, 0)
RECURSIVE reduceAmounts(_)
reduceAmounts(rows) ==
    IF rows = <<>> THEN 0 ELSE Head(rows).amount + reduceAmounts(Tail(rows))

\* db.select().from(withdrawalRequests).where(eq(status, ...))
withdrawalsWithStatus(status) ==
    LET Has(w) == w.status = status IN SelectSeq(withdrawalRequests, Has)

\* app.get("/api/admin/stats", isAdmin, ...)
RequestStats(p) ==
    \E caller \in Callers :
        Arrive(p, "stats", caller, TRUE, <<>>, "getUserStats_selectUsers")

\* getUserStats: const totalUsersResult = await db.select().from(users)
getUserStats_selectUsers(p) ==
    /\ req[p].pc = "getUserStats_selectUsers"
    /\ Continue(p, [pc |-> "getUserStats_selectPending",
                    totalUsersResult |-> {users[u] : u \in DOMAIN users}])
    /\ UnchangedStore

\* getUserStats: the rows with status "pending"
getUserStats_selectPending(p) ==
    /\ req[p].pc = "getUserStats_selectPending"
    /\ Continue(p, [pc |-> "getUserStats_selectApproved",
                    pendingWithdrawalsResult |-> withdrawalsWithStatus("pending")])
    /\ UnchangedStore

\* getUserStats: the rows with status "approved", their total, the returned
\* object; res.json(stats)
getUserStats_selectApproved(p) ==
    /\ req[p].pc = "getUserStats_selectApproved"
    /\ LET approvedWithdrawals == withdrawalsWithStatus("approved")
           totalPayouts == reduceAmounts(approvedWithdrawals)
       IN  req' = [req EXCEPT ![p] = Merge(@,
                [pc |-> "done", res |-> 200,
                 body |-> <<[totalUsers |-> Cardinality(req[p].totalUsersResult),
                             pendingWithdrawals |-> Len(req[p].pendingWithdrawalsResult),
                             totalPayouts |-> toFixed2(totalPayouts * PayoutMillsPerGem)]>>])]
    /\ UnchangedStore

StatsSteps(p) ==
    \/ getUserStats_selectUsers(p)
    \/ getUserStats_selectPending(p)
    \/ getUserStats_selectApproved(p)

\* The statistics route next to the routes that make and decide withdrawals:
\* "u1" is credited 200 and withdraws the minimum, the admin decides.
StatsOfferwall(p) == OfferwallFrom(p, {"offerwall_complete"}, {"u1"}, {2 * MinWithdrawal})

StatsWithdrawal(p) == WithdrawalFrom(p, {"u1"}, {MinWithdrawal}, {"LTC1"})

StatsAdjudicate(p) ==
    AdjudicateFrom(p, AdminUsers, RequestedWithdrawalIds, {"approved", "rejected"}, {""})

NextStats ==
    \/ StatsOfferwall("p1")
    \/ OfferwallSteps("p1")
    \/ StatsWithdrawal("p1")
    \/ WithdrawalSteps("p1")
    \/ StatsAdjudicate("p1")
    \/ AdjudicateSteps("p1")
    \/ RequestStats("p1")
    \/ StatsSteps("p1")
    \/ Finish("p1")

SpecStats == Init /\ [][NextStats]_vars

\* ------------------------------------------------------------------ sign-in
\* upsertUser: `isAdmin: userData.email === "5minutessurvey@gmail.com"`
OperatorEmail == "5minutessurvey@gmail.com"

\* Identity claims a sign-in carries: "u3" has no row at the start.
SignInIds == {"u1", "u2", "u3"}
SignInEmails == {OperatorEmail, "u1@example.com", "u3@example.com"}
SignInFirstNames == {"Ann", "Bea"}

\* users.email is unique: another row already has the address.
emailTaken(userData) ==
    \E u \in DOMAIN users : u # userData.id /\ users[u].email = userData.email

\* Variant: the admin flag is part of the ON CONFLICT update as well.
upsertUser_setsAdmin(userData) ==
    IF userData.id \in DOMAIN users
    THEN [users EXCEPT ![userData.id] =
             [@ EXCEPT !.email = userData.email, !.firstName = userData.firstName,
                       !.isAdmin = (userData.email = OperatorEmail)]]
    ELSE [u \in DOMAIN users \cup {userData.id} |->
             IF u = userData.id
             THEN [id |-> userData.id, email |-> userData.email,
                   firstName |-> userData.firstName, gemBalance |-> 0,
                   status |-> "active",
                   isAdmin |-> (userData.email = OperatorEmail)]
             ELSE users[u]]

\* INSERT INTO users VALUES (...userData, isAdmin) with the column defaults
\* ON CONFLICT (id) DO UPDATE SET ...userData, updatedAt: the users table
\* after the statement has succeeded.
upsertUser(userData) ==
    IF userData.id \in DOMAIN users
    THEN [users EXCEPT ![userData.id] =
             [@ EXCEPT !.email = userData.email, !.firstName = userData.firstName]]
    ELSE [u \in DOMAIN users \cup {userData.id} |->
             IF u = userData.id
             THEN [id |-> userData.id, email |-> userData.email,
                   firstName |-> userData.firstName, gemBalance |-> 0,
                   status |-> "active",
                   isAdmin |-> (userData.email = OperatorEmail)]
             ELSE users[u]]

\* A sign-in calls storage.upsertUser with the identity claims.  The statement
\* fails on the unique index of users.email when another row has the address.
SignIn(p) ==
    /\ req[p].pc = "idle"
    /\ \E id \in SignInIds, email \in SignInEmails, firstName \in SignInFirstNames :
        LET userData == [id |-> id, email |-> email, firstName |-> firstName]
            r == Merge(IdleRequest,
                       [route |-> "sign_in", targetUserId |-> id, email |-> email,
                        firstName |-> firstName, pc |-> "done", pre |-> <<Store>>])
        IN  IF emailTaken(userData)
            THEN /\ users' = users
                 /\ req' = [req EXCEPT ![p] = Merge(r, [res |-> 500])]
            ELSE /\ users' = upsertUser(userData)
                 /\ req' = [req EXCEPT ![p] = Merge(r, [res |-> 200])]
    /\ UNCHANGED <<surveys, surveyResponses, transactions, withdrawalRequests,
                   securityLogs>>

\* Sign-ins next to the routes that change what a sign-in must leave alone:
\* an offerwall credit to "u1", and the admin banning or re-admitting "u1".
SignInOfferwall(p) == OfferwallFrom(p, {"offerwall_complete"}, {"u1"}, OfferRewards)

SignInUserStatus(p) == UserStatusFrom(p, AdminUsers, {"u1"}, {"banned", "active"})

NextSignIn ==
    \/ SignIn("p1")
    \/ SignInOfferwall("p1")
    \/ OfferwallSteps("p1")
    \/ SignInUserStatus("p1")
    \/ UserStatusSteps("p1")
    \/ Finish("p1")

SpecSignIn == Init /\ [][NextSignIn]_vars

\* ------------------------------------------------------ GET /api/transactions
\* getUserTransactions(userId, limit = 10): part_000:203
TransactionsLimit == 10

\* Rows of the ledger in the tables this route is run against.
MaxLedgerRows == 12

\* The transactions table with the serial id of every row; the table is kept
\* in insertion order and createdAt is the time of the insert (defaultNow()),
\* so a row's id is also its rank by createdAt.
transactionsWithId ==
    [i \in Indices(transactions) |->
        [id |-> i, userId |-> transactions[i].userId, type |-> transactions[i].type,
         amount |-> transactions[i].amount]]

\* Variant: ORDER BY createdAt ascending.
orderByCreatedAtDesc_ascending(rows) == rows

\* .orderBy(desc(transactions.createdAt))
orderByCreatedAtDesc(rows) == [i \in Indices(rows) |-> rows[Len(rows) + 1 - i]]

\* .limit(limit)
limitRows(rows, limit) ==
    SubSeq(rows, 1, IF Len(rows) < limit THEN Len(rows) ELSE limit)

\* SELECT * FROM transactions WHERE user_id = userId
\* ORDER BY created_at DESC LIMIT limit
getUserTransactions(userId, limit) ==
    LET OfUser(t) == t.userId = userId
    IN  limitRows(orderByCreatedAtDesc(SelectSeq(transactionsWithId, OfUser)), limit)

\* app.get("/api/transactions", isAuthenticated, ...)
RequestTransactions(p) ==
    \E caller \in Callers :
        Arrive(p, "transactions", caller, FALSE, <<>>,
               "transactions_getUserTransactions")

\* storage.getUserTransactions(userId); res.json(transactions)
Transactions_getUserTransactions(p) ==
    /\ req[p].pc = "transactions_getUserTransactions"
    /\ req' = [req EXCEPT ![p] = Merge(@,
           [pc |-> "done", res |-> 200,
            body |-> getUserTransactions(req[p].userId, TransactionsLimit)])]
    /\ UnchangedStore

\* The route is run against every ledger of up to MaxLedgerRows offerwall
\* credits of 100, each to one of the two users, with the balances those
\* credits give.  The audit log is left empty: the route does not read it.
InitLedger ==
    /\ \E n \in 0..MaxLedgerRows : \E owners \in [1..n -> Users] :
        /\ transactions =
              [i \in 1..n |-> [userId |-> owners[i], type |-> "offerwall_reward",
                               amount |-> 100, surveyId |-> 0, withdrawalId |-> 0]]
        /\ users = [u \in Users |->
              [id |-> u,
               email |-> IF u \in AdminUsers THEN OperatorEmail ELSE "u1@example.com",
               firstName |-> "Ann",
               gemBalance |-> 100 * Cardinality({i \in 1..n : owners[i] = u}),
               status |-> "active",
               isAdmin |-> (u \in AdminUsers)]]
    /\ surveys = [s \in SurveyIds |->
                  [id |-> s, reward |-> SurveyReward(s), participantCount |-> 0]]
    /\ surveyResponses = <<>>
    /\ withdrawalRequests = <<>>
    /\ securityLogs = <<>>
    /\ req = [p \in Procs |-> IdleRequest]

NextLedger ==
    \/ RequestTransactions("p1")
    \/ Transactions_getUserTransactions("p1")
    \/ Finish("p1")

SpecLedger == InitLedger /\ [][NextLedger]_vars


\* =================================================================== claims
\* What a finished request is compared with: the tables as they were when the
\* request arrived.  With one request handled at a time, every difference
\* between that snapshot and the tables now is the work of this request.
Done(p) == req[p].pc = "done"

Pre(p) == req[p].pre[1]

Finished(p, route) == Done(p) /\ req[p].route = route

PendingOf(table, userId) ==
    {i \in Indices(table) : table[i].userId = userId /\ table[i].status = "pending"}

HadResponse(p) ==
    \E i \in Indices(Pre(p).surveyResponses) :
        /\ Pre(p).surveyResponses[i].userId = req[p].userId
        /\ Pre(p).surveyResponses[i].surveyId = req[p].surveyId

\* No withdrawal row, no ledger row and no balance differs from the snapshot.
NoLedgerEffect(p) ==
    /\ withdrawalRequests = Pre(p).withdrawalRequests
    /\ transactions = Pre(p).transactions
    /\ users = Pre(p).users

\* ----------------------------------------------------------------------- C1
\* C1: a successful completion of an existing survey S the user had not
\* completed adds exactly one SurveyResponse with gemAwarded = S.reward and
\* exactly one Transaction (survey_reward, amount S.reward), and the user's
\* balance is the balance before plus S.reward.
C1_CompletionCredits ==
    \A p \in Procs :
        (/\ Finished(p, "complete_survey")
         /\ req[p].res = 200
         /\ req[p].surveyId \in DOMAIN Pre(p).surveys
         /\ ~HadResponse(p))
        => LET u == req[p].userId
               s == req[p].surveyId
               reward == Pre(p).surveys[s].reward
           IN  /\ surveyResponses = Append(Pre(p).surveyResponses,
                      [userId |-> u, surveyId |-> s, gemAwarded |-> reward])
               /\ transactions = Append(Pre(p).transactions,
                      [userId |-> u, type |-> "survey_reward", amount |-> reward,
                       surveyId |-> s, withdrawalId |-> 0])
               /\ users[u].gemBalance = Pre(p).users[u].gemBalance + reward

\* A completion succeeded for a user who already held gems.
C1_Witness ==
    \E p \in Procs :
        /\ Finished(p, "complete_survey")
        /\ req[p].res = 200
        /\ ~HadResponse(p)
        /\ Pre(p).users[req[p].userId].gemBalance > 0

\* ----------------------------------------------------------------------- C2
\* C2: when the user already has a SurveyResponse for the survey, a further
\* completion request is refused and changes nothing: no SurveyResponse, no
\* Transaction, the same gemBalance and the same participantCount.  The
\* answer is the business-rule 400 for every body that passes the schema.
C2_SecondCompletionRejected ==
    \A p \in Procs :
        (/\ Finished(p, "complete_survey")
         /\ isAuthenticated(req[p].userId)
         /\ HadResponse(p))
        => /\ req[p].res # 200
           /\ ValidSurveyResponse(req[p]) => req[p].res = 400
           /\ Store = Pre(p)

\* A well-formed second completion was answered 400.
C2_Witness ==
    \E p \in Procs :
        /\ Finished(p, "complete_survey")
        /\ HadResponse(p)
        /\ ValidSurveyResponse(req[p])
        /\ req[p].res = 400

\* ----------------------------------------------------------------------- C3
\* C3: a well-formed withdrawal request of amount A by a user with balance B
\* and no pending withdrawal, 100 <= A <= B, succeeds; afterwards there is
\* exactly one new WithdrawalRequest (amount A, pending), exactly one new
\* Transaction (withdrawal_request, -A, referencing it), the balance is
\* B - A and one security-log row was appended.
C3_WithdrawalSucceeds ==
    \A p \in Procs :
        (/\ Finished(p, "withdrawal")
         /\ isAuthenticated(req[p].userId)
         /\ ValidWithdrawalRequest(req[p])
         /\ PendingOf(Pre(p).withdrawalRequests, req[p].userId) = {}
         /\ MinWithdrawal <= req[p].amount
         /\ req[p].amount <= req[p].user[1].gemBalance)
        => LET u == req[p].userId
               A == req[p].amount
               B == req[p].user[1].gemBalance
               id == Len(Pre(p).withdrawalRequests) + 1
           IN  /\ req[p].res = 200
               /\ withdrawalRequests = Append(Pre(p).withdrawalRequests,
                      [id |-> id, userId |-> u, amount |-> A,
                       walletAddress |-> req[p].walletAddress, status |-> "pending",
                       adminNotes |-> "", processedBy |-> ""])
               /\ transactions = Append(Pre(p).transactions,
                      [userId |-> u, type |-> "withdrawal_request", amount |-> -A,
                       surveyId |-> 0, withdrawalId |-> id])
               /\ users[u].gemBalance = B - A
               /\ Len(securityLogs) = Len(Pre(p).securityLogs) + 1

\* A withdrawal succeeded and left gems in the balance (A < B).
C3_Witness ==
    \E p \in Procs :
        /\ Finished(p, "withdrawal")
        /\ req[p].res = 200
        /\ req[p].amount >= MinWithdrawal
        /\ req[p].amount < req[p].user[1].gemBalance

\* ----------------------------------------------------------------------- C4
\* C4: a withdrawal request for less than 100 (zero and negative included)
\* is refused in every user state and creates no WithdrawalRequest, no
\* Transaction and no balance change.
C4_BelowMinimumRejected ==
    \A p \in Procs :
        (Finished(p, "withdrawal") /\ req[p].amount < MinWithdrawal)
        => /\ req[p].res # 200
           /\ NoLedgerEffect(p)

\* A request below the minimum was refused although the user could afford it
\* and had nothing pending: only the minimum check stood in its way.
C4_Witness ==
    \E p \in Procs :
        /\ Finished(p, "withdrawal")
        /\ req[p].res = 400
        /\ req[p].amount < MinWithdrawal
        /\ req[p].amount > 0
        /\ req[p].amount <= req[p].user[1].gemBalance
        /\ PendingOf(Pre(p).withdrawalRequests, req[p].userId) = {}

\* ----------------------------------------------------------------------- C5
\* C5: a withdrawal request by a user who already has a pending
\* WithdrawalRequest is refused whatever the amount and balance, and creates
\* no WithdrawalRequest, no Transaction and no balance change.  The answer
\* is 400 for every body that passes the schema.
C5_PendingRejected ==
    \A p \in Procs :
        (/\ Finished(p, "withdrawal")
         /\ isAuthenticated(req[p].userId)
         /\ PendingOf(Pre(p).withdrawalRequests, req[p].userId) # {})
        => /\ req[p].res # 200
           /\ ValidWithdrawalRequest(req[p]) => req[p].res = 400
           /\ NoLedgerEffect(p)

\* A request the balance and the minimum would have allowed was refused
\* because one was pending.
C5_Witness ==
    \E p \in Procs :
        /\ Finished(p, "withdrawal")
        /\ req[p].res = 400
        /\ PendingOf(Pre(p).withdrawalRequests, req[p].userId) # {}
        /\ req[p].amount >= MinWithdrawal
        /\ req[p].amount <= req[p].user[1].gemBalance

\* ----------------------------------------------------------------------- C6
\* C6: a withdrawal request for more than the user's gemBalance is refused
\* and creates no WithdrawalRequest, no Transaction and no balance change.
\* The answer is 400 for every body that passes the schema.
C6_OverBalanceRejected ==
    \A p \in Procs :
        (/\ Finished(p, "withdrawal")
         /\ isAuthenticated(req[p].userId)
         /\ req[p].amount > Pre(p).users[req[p].userId].gemBalance)
        => /\ req[p].res # 200
           /\ ValidWithdrawalRequest(req[p]) => req[p].res = 400
           /\ NoLedgerEffect(p)

\* A request above the minimum, with nothing pending, was refused for the
\* balance alone, and the balance was not zero.
C6_Witness ==
    \E p \in Procs :
        /\ Finished(p, "withdrawal")
        /\ req[p].res = 400
        /\ req[p].amount > Pre(p).users[req[p].userId].gemBalance
        /\ Pre(p).users[req[p].userId].gemBalance >= MinWithdrawal
        /\ PendingOf(Pre(p).withdrawalRequests, req[p].userId) = {}

\* ------------------------------------------------------------- C7 and C8
\* An admin's well-formed decision on a withdrawal that was pending when the
\* request arrived.
Decided(p, status) ==
    /\ Finished(p, "adjudicate")
    /\ isAdmin(req[p].userId)
    /\ req[p].status = status
    /\ req[p].withdrawalId \in Indices(Pre(p).withdrawalRequests)
    /\ Pre(p).withdrawalRequests[req[p].withdrawalId].status = "pending"

\* The decided row has the new status and the deciding admin; no other row
\* of the table changed and none was added.
StatusSet(p, status) ==
    /\ Len(withdrawalRequests) = Len(Pre(p).withdrawalRequests)
    /\ \A i \in Indices(withdrawalRequests) :
          IF i = req[p].withdrawalId
          THEN /\ withdrawalRequests[i].status = status
               /\ withdrawalRequests[i].processedBy = req[p].userId
               /\ withdrawalRequests[i].userId = Pre(p).withdrawalRequests[i].userId
               /\ withdrawalRequests[i].amount = Pre(p).withdrawalRequests[i].amount
          ELSE withdrawalRequests[i] = Pre(p).withdrawalRequests[i]

\* C7: an admin's 'rejected' on a pending WithdrawalRequest W (amount A,
\* owner U with balance B) sets W to rejected with processedBy = the admin,
\* appends exactly one Transaction (withdrawal_rejected, +A, user U) and
\* sets U's balance to B + A; nobody else's balance changes, the admin's
\* included.
C7_RejectionRefundsOwner ==
    \A p \in Procs :
        Decided(p, "rejected")
        => LET W == Pre(p).withdrawalRequests[req[p].withdrawalId]
           IN  /\ req[p].res = 200
               /\ StatusSet(p, "rejected")
               /\ transactions = Append(Pre(p).transactions,
                      [userId |-> W.userId, type |-> "withdrawal_rejected",
                       amount |-> W.amount, surveyId |-> 0, withdrawalId |-> W.id])
               /\ users[W.userId].gemBalance =
                      Pre(p).users[W.userId].gemBalance + W.amount
               /\ \A u \in Users \ {W.userId} : users[u] = Pre(p).users[u]

\* The admin rejected another user's withdrawal, and that user still held
\* gems (B > 0).
C7_Witness ==
    \E p \in Procs :
        /\ Decided(p, "rejected")
        /\ req[p].res = 200
        /\ Pre(p).withdrawalRequests[req[p].withdrawalId].userId # req[p].userId
        /\ Pre(p).users[Pre(p).withdrawalRequests[req[p].withdrawalId].userId].gemBalance > 0

\* C8: an admin's 'approved' on a pending WithdrawalRequest W sets W to
\* approved, appends exactly one Transaction (withdrawal_approved, amount 0,
\* user U) and leaves every user's gemBalance unchanged.
C8_ApprovalKeepsBalances ==
    \A p \in Procs :
        Decided(p, "approved")
        => LET W == Pre(p).withdrawalRequests[req[p].withdrawalId]
           IN  /\ req[p].res = 200
               /\ StatusSet(p, "approved")
               /\ transactions = Append(Pre(p).transactions,
                      [userId |-> W.userId, type |-> "withdrawal_approved",
                       amount |-> 0, surveyId |-> 0, withdrawalId |-> W.id])
               /\ \A u \in Users : users[u].gemBalance = Pre(p).users[u].gemBalance

\* The admin approved a pending withdrawal.
C8_Witness ==
    \E p \in Procs :
        /\ Decided(p, "approved")
        /\ req[p].res = 200
        /\ withdrawalRequests[req[p].withdrawalId].status = "approved"

\* ----------------------------------------------------------------------- C9
\* C9: approved and rejected are terminal: once a WithdrawalRequest has one
\* of them, no step changes its status, processedBy or adminNotes (so the
\* status changes at most once).
C9_DecisionIsFinal ==
    [][\A i \in Indices(withdrawalRequests) :
          withdrawalRequests[i].status \in {"approved", "rejected"}
          => /\ withdrawalRequests'[i].status = withdrawalRequests[i].status
             /\ withdrawalRequests'[i].processedBy = withdrawalRequests[i].processedBy
             /\ withdrawalRequests'[i].adminNotes = withdrawalRequests[i].adminNotes]_vars

\* ---------------------------------------------------------------------- C10
\* C10: with requests handled one at a time, no user ever has more than one
\* WithdrawalRequest with status pending.
C10_AtMostOnePending ==
    \A u \in Users : Cardinality(PendingOf(withdrawalRequests, u)) <= 1

\* A user has a pending withdrawal next to an earlier one that was decided:
\* the second request was let through only after the first left pending.
C10_Witness ==
    \E u \in Users :
        /\ Cardinality(PendingOf(withdrawalRequests, u)) = 1
        /\ \E i \in Indices(withdrawalRequests) :
              /\ withdrawalRequests[i].userId = u
              /\ withdrawalRequests[i].status # "pending"

\* ---------------------------------------------------------------------- C11
\* C11: the pending pre-check is all that stands between a request and its
\* insert: a withdrawal handler that read "no pending row" and passed the
\* balance and minimum checks inserts its pending row when it runs on,
\* whatever rows other requests have inserted since its read.  With two
\* concurrent requests of one user both therefore pass the pre-check before
\* either inserts, and the user ends up with two pending rows (the witness).
C11_InsertAfterStaleCheck ==
    [][\A p \in Procs :
          (/\ req[p].pc = "withdrawal_createWithdrawalRequest"
           /\ req'[p].pc # req[p].pc
           /\ ~hasPendingWithdrawal(req[p])
           /\ ~insufficientBalance(req[p])
           /\ ~belowMinimum(req[p]))
          => /\ Len(withdrawalRequests') = Len(withdrawalRequests) + 1
             /\ withdrawalRequests'[Len(withdrawalRequests')].userId = req[p].userId
             /\ withdrawalRequests'[Len(withdrawalRequests')].status = "pending"]_vars

\* One user has two WithdrawalRequests with status pending.
C11_Witness ==
    \E u \in Users : Cardinality(PendingOf(withdrawalRequests, u)) >= 2

\* ---------------------------------------------------------------------- C12
\* The sum of the amounts of a user's Transactions.
RECURSIVE SumOf(_, _)
SumOf(table, userId) ==
    IF table = <<>> THEN 0
    ELSE (IF Head(table).userId = userId THEN Head(table).amount ELSE 0)
         + SumOf(Tail(table), userId)

\* No request is being handled.
Quiescent == \A p \in Procs : req[p].pc \in {"idle", "done"}

\* C12: starting from zero balances and an empty ledger, with requests
\* handled one at a time, after every completed request the sum of each
\* user's Transaction amounts equals that user's gemBalance.
C12_LedgerMatchesBalance ==
    Quiescent => \A u \in Users : SumOf(transactions, u) = users[u].gemBalance

\* After a request, a user holds gems and the ledger has both a withdrawal
\* request and an admin's rejection for a user.
C12_Witness ==
    /\ Quiescent
    /\ \E u \in Users : users[u].gemBalance > 0
    /\ \E i, j \in Indices(transactions) :
          /\ transactions[i].type = "withdrawal_request"
          /\ transactions[j].type = "withdrawal_rejected"

\* ---------------------------------------------------------------------- C13
\* C13: balance updates are read-then-overwrite.  Every balance write stores
\* the value the handler computed from the row it read earlier (req.user, or
\* the row createSurveyResponse read), whatever the stored balance is by
\* then; when two handlers of one user interleave, one update is overwritten
\* and the balance no longer equals the ledger sum (the witness).
C13_WriteFromEarlierRead ==
    [][\A p \in Procs :
          req'[p].pc # req[p].pc
          => /\ req[p].pc = "withdrawal_updateUserGemBalance"
                => users'[req[p].userId].gemBalance
                       = req[p].user[1].gemBalance - req[p].amount
             /\ req[p].pc = "offerwall_updateUserGemBalance"
                => users'[req[p].userId].gemBalance
                       = req[p].user[1].gemBalance + req[p].amount
             /\ req[p].pc = "createSurveyResponse_updateUserGemBalance"
                => users'[req[p].userId].gemBalance
                       = req[p].dbUser[1].gemBalance + req[p].response[1].gemAwarded]_vars

\* No request is in flight, and a user's gemBalance differs from the sum of
\* that user's Transaction amounts.
C13_Witness ==
    /\ Quiescent
    /\ \E u \in Users : SumOf(transactions, u) # users[u].gemBalance

\* ---------------------------------------------------------------------- C14
\* C14: in every reachable state, concurrent completion requests included,
\* there is at most one SurveyResponse per (user, survey) pair and the
\* survey's reward has been credited to the user at most once (at most one
\* survey_reward Transaction for the pair, and no more than one reward from
\* that survey in the balance).
C14_OncePerPair ==
    \A u \in Users, sv \in SurveyIds :
        /\ Cardinality({i \in Indices(surveyResponses) :
                           /\ surveyResponses[i].userId = u
                           /\ surveyResponses[i].surveyId = sv}) <= 1
        /\ Cardinality({i \in Indices(transactions) :
                           /\ transactions[i].userId = u
                           /\ transactions[i].type = "survey_reward"
                           /\ transactions[i].surveyId = sv}) <= 1

\* ---------------------------------------------------------------------- C15
\* C15: an offerwall completion on either route, handled alone, succeeds for
\* whatever reward r the client supplies (no check of r): the balance
\* becomes the previous balance plus r, exactly one Transaction
\* (offerwall_reward, r) and one security-log row are appended.
C15_OfferwallCredits ==
    \A p \in Procs :
        (/\ Done(p)
         /\ req[p].route \in {"offerwall_complete", "offerwall_earnings"}
         /\ isAuthenticated(req[p].userId))
        => LET u == req[p].userId
               r == req[p].amount
           IN  /\ req[p].res = 200
               /\ users[u].gemBalance = Pre(p).users[u].gemBalance + r
               /\ \A v \in Users \ {u} : users[v] = Pre(p).users[v]
               /\ transactions = Append(Pre(p).transactions,
                      [userId |-> u, type |-> "offerwall_reward", amount |-> r,
                       surveyId |-> 0, withdrawalId |-> 0])
               /\ securityLogs = Append(Pre(p).securityLogs,
                      [userId |-> u,
                       action |-> IF req[p].route = "offerwall_complete"
                                  THEN "offerwall_completed"
                                  ELSE "offerwall_earnings"])

\* The earnings route credited a negative amount to a user who held gems.
C15_Witness ==
    \E p \in Procs :
        /\ Finished(p, "offerwall_earnings")
        /\ req[p].res = 200
        /\ req[p].amount < 0
        /\ Pre(p).users[req[p].userId].gemBalance > 0

\* ---------------------------------------------------------------------- C16
\* The stages of the scenario, as predicates on the tables: user "u1",
\* survey 1 (reward 50) and survey 2 (reward 60).
ScenarioStart(st) ==
    /\ st.users["u1"].gemBalance = 0
    /\ st.transactions = <<>>
    /\ st.surveyResponses = <<>>
    /\ st.withdrawalRequests = <<>>

ScenarioReward(surveyId, amount) ==
    [userId |-> "u1", type |-> "survey_reward", amount |-> amount,
     surveyId |-> surveyId, withdrawalId |-> 0]

AfterFirstSurvey(st) ==
    /\ st.users["u1"].gemBalance = 50
    /\ st.transactions = <<ScenarioReward(1, 50)>>
    /\ st.withdrawalRequests = <<>>

AfterSecondSurvey(st) ==
    /\ st.users["u1"].gemBalance = 110
    /\ st.transactions = <<ScenarioReward(1, 50), ScenarioReward(2, 60)>>
    /\ st.withdrawalRequests = <<>>

AfterWithdrawal(st) ==
    /\ st.users["u1"].gemBalance = 10
    /\ Len(st.transactions) = 3
    /\ Len(st.withdrawalRequests) = 1
    /\ st.withdrawalRequests[1].userId = "u1"
    /\ st.withdrawalRequests[1].amount = 100
    /\ st.withdrawalRequests[1].status = "pending"

AfterRejection(st) ==
    /\ st.users["u1"].gemBalance = 110
    /\ Len(st.withdrawalRequests) = 1
    /\ st.withdrawalRequests[1].status = "rejected"

\* C16: the end-to-end scenario, one request at a time.  From balance 0,
\* completing survey 1 gives balance 50 and one survey_reward of +50; a
\* withdrawal of 50 is then refused with no state change; completing
\* survey 2 gives 110; a withdrawal of 100 succeeds, leaving balance 10 and
\* exactly one pending request of 100; the admin's rejection gives balance
\* 110 and status rejected.
C16_Scenario ==
    \A p \in Procs :
        Done(p) =>
        /\ (/\ req[p].route = "complete_survey" /\ req[p].userId = "u1"
            /\ req[p].surveyId = 1 /\ ValidSurveyResponse(req[p])
            /\ ScenarioStart(Pre(p)))
           => (req[p].res = 200 /\ AfterFirstSurvey(Store))
        /\ (/\ req[p].route = "withdrawal" /\ req[p].userId = "u1"
            /\ req[p].amount = 50 /\ ValidWithdrawalRequest(req[p])
            /\ AfterFirstSurvey(Pre(p)))
           => (req[p].res = 400 /\ Store = Pre(p))
        /\ (/\ req[p].route = "complete_survey" /\ req[p].userId = "u1"
            /\ req[p].surveyId = 2 /\ ValidSurveyResponse(req[p])
            /\ AfterFirstSurvey(Pre(p)))
           => (req[p].res = 200 /\ AfterSecondSurvey(Store))
        /\ (/\ req[p].route = "withdrawal" /\ req[p].userId = "u1"
            /\ req[p].amount = 100 /\ ValidWithdrawalRequest(req[p])
            /\ AfterSecondSurvey(Pre(p)))
           => (req[p].res = 200 /\ AfterWithdrawal(Store))
        /\ (/\ req[p].route = "adjudicate" /\ isAdmin(req[p].userId)
            /\ req[p].withdrawalId = 1 /\ req[p].status = "rejected"
            /\ AfterWithdrawal(Pre(p)))
           => (req[p].res = 200 /\ AfterRejection(Store))

\* The last step of the scenario has run: the admin rejected the withdrawal
\* of 100 that followed the two surveys.
C16_Witness ==
    \E p \in Procs :
        /\ Finished(p, "adjudicate")
        /\ req[p].status = "rejected"
        /\ AfterWithdrawal(Pre(p))
        /\ Pre(p).transactions[1] = ScenarioReward(1, 50)
        /\ Pre(p).transactions[2] = ScenarioReward(2, 60)
        /\ AfterRejection(Store)

\* ---------------------------------------------------------------------- C17
AdminRoutes == {"adjudicate", "user_status"}

\* C17: a finished request to PATCH /api/admin/withdrawals/:id or
\* PATCH /api/admin/users/:id/status whose caller has no session or no admin
\* flag was refused by the gate (401 or 403) and no withdrawal, user,
\* transaction or security-log row differs from when it arrived.
C17_AdminOnly ==
    \A p \in Procs :
        (/\ Done(p)
         /\ req[p].route \in AdminRoutes
         /\ \/ req[p].userId \notin DOMAIN Pre(p).users
            \/ ~Pre(p).users[req[p].userId].isAdmin)
        => /\ req[p].res \in {401, 403}
           /\ Store = Pre(p)

\* A signed-in non-admin asked to reject a withdrawal that exists and is
\* pending, and was refused.
C17_Witness ==
    \E p \in Procs :
        /\ Finished(p, "adjudicate")
        /\ req[p].userId \in Users \ AdminUsers
        /\ req[p].res = 403
        /\ ValidWithdrawalStatus(req[p])
        /\ req[p].withdrawalId \in Indices(withdrawalRequests)
        /\ withdrawalRequests[req[p].withdrawalId].status = "pending"

\* ---------------------------------------------------------------------- C18
\* The request passed the gate.
Admitted(p) == Done(p) /\ req[p].res \notin {401, 403}

\* The body fails the schema of the request's route.
InvalidBody(p) ==
    \/ req[p].route = "complete_survey" /\ ~ValidSurveyResponse(req[p])
    \/ req[p].route = "withdrawal" /\ ~ValidWithdrawalRequest(req[p])
    \/ req[p].route = "adjudicate" /\ ~ValidWithdrawalStatus(req[p])
    \/ req[p].route = "user_status" /\ ~ValidUserStatus(req[p])

\* C18: a request whose body fails schema validation is answered with HTTP
\* 400 and changes no state.
C18_InvalidBodyIs400 ==
    \A p \in Procs :
        (Admitted(p) /\ InvalidBody(p)) => (req[p].res = 400 /\ Store = Pre(p))

\* ---------------------------------------------------------------------- C19
\* C19: an admin adjudication with a valid body for a withdrawal id that does
\* not exist is answered 404 and writes nothing.
C19_MissingWithdrawalIs404 ==
    \A p \in Procs :
        (/\ Admitted(p)
         /\ req[p].route = "adjudicate"
         /\ ValidWithdrawalStatus(req[p])
         /\ req[p].withdrawalId \notin Indices(Pre(p).withdrawalRequests))
        => (req[p].res = 404 /\ Store = Pre(p))

\* ---------------------------------------------------------------------- C20
\* C20: an admin status change with a valid body fails as not-found (404,
\* nothing reported as success) when the user id does not exist; for an
\* existing user it answers 200 and the users table differs from before in
\* that user's status only, which is the requested value.
C20_UserStatusChange ==
    \A p \in Procs :
        (/\ Admitted(p)
         /\ req[p].route = "user_status"
         /\ ValidUserStatus(req[p]))
        => IF req[p].targetUserId \in DOMAIN Pre(p).users
           THEN /\ req[p].res = 200
                /\ users = [Pre(p).users EXCEPT
                               ![req[p].targetUserId].status = req[p].status]
           ELSE req[p].res = 404

\* ---------------------------------------------------------------------- C21
\* The user has a SurveyResponse for the survey in the given table.
RespondedIn(table, userId, surveyId) ==
    \E i \in Indices(table) : table[i].userId = userId /\ table[i].surveyId = surveyId

\* The ledger has a survey_reward row of the user for the survey.
RewardedIn(table, userId, surveyId) ==
    \E i \in Indices(table) :
        /\ table[i].userId = userId
        /\ table[i].type = "survey_reward"
        /\ table[i].surveyId = surveyId

\* The createTransaction call of a completion fails: 500 is answered.
CreateTransactionFails(p) ==
    /\ req[p].pc = "complete_createTransaction"
    /\ req'[p].pc = "done"

\* What that failure leaves: the response and the credit, no ledger row.
LedgerLeftShort(p) ==
    /\ req'[p].res = 500
    /\ RespondedIn(surveyResponses', req[p].userId, req[p].surveyId)
    /\ ~RespondedIn(Pre(p).surveyResponses, req[p].userId, req[p].surveyId)
    /\ users'[req[p].userId].gemBalance
          = Pre(p).users[req[p].userId].gemBalance + req[p].survey[1].reward
    /\ transactions' = Pre(p).transactions

\* A completion of a survey the user already has a response for ends without
\* success and changes nothing.
RetryChangesNothing ==
    \A p \in Procs :
        (Finished(p, "complete_survey") /\ HadResponse(p))
        => (req[p].res \in {400, 500} /\ Store = Pre(p))

\* C21: when createTransaction fails after createSurveyResponse returned, the
\* client gets an error, the SurveyResponse and the balance credit stay and
\* no survey_reward row exists; every later completion of the same survey by
\* the user is refused and changes nothing, so the ledger stays short.
C21_CompletionNotAtomic ==
    /\ [][\A p \in Procs : CreateTransactionFails(p) => LedgerLeftShort(p)]_vars
    /\ []RetryChangesNothing

\* A retry was refused as already completed while the ledger is short of the
\* balance by the reward of the unrecorded completion.
C21_Witness ==
    \E p \in Procs :
        /\ Finished(p, "complete_survey")
        /\ req[p].res = 400
        /\ HadResponse(p)
        /\ ~RewardedIn(transactions, req[p].userId, req[p].surveyId)
        /\ users[req[p].userId].gemBalance
              = SumOf(transactions, req[p].userId) + SurveyReward(req[p].surveyId)

\* ---------------------------------------------------------------------- C22
\* The SurveyResponses recorded for a survey.
ResponsesOf(surveyId) ==
    {i \in Indices(surveyResponses) : surveyResponses[i].surveyId = surveyId}

\* C22: whenever no request is being handled, every survey's participantCount
\* equals its initial value (0) plus the number of SurveyResponses recorded
\* for that survey, also when completions by different users interleave.
C22_ParticipantCount ==
    Quiescent =>
        \A s \in DOMAIN surveys :
            surveys[s].participantCount = Cardinality(ResponsesOf(s))

\* ---------------------------------------------------------------------- C23
\* The amounts of the rows of a withdrawal table that have the given status.
RECURSIVE StatusTotal(_, _)
StatusTotal(table, status) ==
    IF table = <<>> THEN 0
    ELSE (IF Head(table).status = status THEN Head(table).amount ELSE 0)
         + StatusTotal(Tail(table), status)

\* C23: GET /api/admin/stats answers totalUsers = the number of users,
\* pendingWithdrawals = the number of pending WithdrawalRequests, and
\* totalPayouts = the sum of the amounts of the approved WithdrawalRequests
\* converted at the documented 1000 gems = 1 USD.
C23_Stats ==
    \A p \in Procs :
        (Finished(p, "stats") /\ req[p].res = 200) =>
        /\ req[p].body[1].totalUsers = Cardinality(DOMAIN users)
        /\ req[p].body[1].pendingWithdrawals
              = Cardinality({i \in Indices(withdrawalRequests) :
                                withdrawalRequests[i].status = "pending"})
        /\ req[p].body[1].totalPayouts
              = toFixed2(StatusTotal(withdrawalRequests, "approved")
                         * DocumentedMillsPerGem)

\* ---------------------------------------------------------------------- C24
\* Every row of the users table but the one of id is as before the request.
OthersUnchanged(p, id) ==
    /\ DOMAIN users \ {id} = DOMAIN Pre(p).users \ {id}
    /\ \A u \in DOMAIN users \ {id} : users[u] = Pre(p).users[u]

\* C24: a successful upsertUser on an id without a row creates a user with
\* gemBalance 0, status active and isAdmin true exactly when the email is the
\* operator address; on an id with a row it sets the identity fields and
\* leaves that user's gemBalance, status and isAdmin as they were.  No other
\* user and no other table changes, and a failed upsert changes nothing.
C24_UpsertUser ==
    \A p \in Procs :
        Finished(p, "sign_in") =>
        LET id == req[p].targetUserId IN
        /\ req[p].res # 200 => Store = Pre(p)
        /\ req[p].res = 200 =>
            /\ OthersUnchanged(p, id)
            /\ [Store EXCEPT !.users = Pre(p).users] = Pre(p)
            /\ users[id].email = req[p].email
            /\ users[id].firstName = req[p].firstName
            /\ IF id \in DOMAIN Pre(p).users
               THEN /\ users[id].gemBalance = Pre(p).users[id].gemBalance
                    /\ users[id].status = Pre(p).users[id].status
                    /\ users[id].isAdmin = Pre(p).users[id].isAdmin
               ELSE /\ users[id].gemBalance = 0
                    /\ users[id].status = "active"
                    /\ users[id].isAdmin = (req[p].email = OperatorEmail)

\* A banned user who holds gems and is no admin signed in again, now with the
\* operator address, and the sign-in succeeded.
C24_Witness ==
    \E p \in Procs :
        /\ Finished(p, "sign_in")
        /\ req[p].res = 200
        /\ req[p].targetUserId \in DOMAIN Pre(p).users
        /\ req[p].email = OperatorEmail
        /\ Pre(p).users[req[p].targetUserId].email # OperatorEmail
        /\ Pre(p).users[req[p].targetUserId].status = "banned"
        /\ Pre(p).users[req[p].targetUserId].gemBalance > 0
        /\ ~Pre(p).users[req[p].targetUserId].isAdmin

\* ---------------------------------------------------------------------- C25
\* The ids of the caller's rows in the ledger.
OwnRows(p) ==
    {i \in Indices(transactions) : transactions[i].userId = req[p].userId}

\* C25: GET /api/transactions answers with rows of the calling user only, at
\* most 10 and all of them when the user has fewer, newest first, and no row
\* of the caller that is left out is newer than a row that is returned.
C25_RecentTransactions ==
    \A p \in Procs :
        (Finished(p, "transactions") /\ req[p].res = 200) =>
        LET out == req[p].body
            returned == {out[i].id : i \in Indices(out)}
        IN  /\ returned \subseteq OwnRows(p)
            /\ \A i \in Indices(out) :
                  /\ out[i].userId = req[p].userId
                  /\ out[i].amount = transactions[out[i].id].amount
                  /\ out[i].type = transactions[out[i].id].type
            /\ Len(out) <= 10
            /\ Len(out) = Cardinality(returned)
            /\ Cardinality(OwnRows(p)) <= 10 => returned = OwnRows(p)
            /\ Cardinality(OwnRows(p)) > 10 => Len(out) = 10
            /\ \A i, j \in Indices(out) : i < j => out[i].id > out[j].id
            /\ \A k \in OwnRows(p) \ returned : \A i \in Indices(out) : k < out[i].id

\* A caller with more than 10 rows got 10 of them while the ledger also
\* holds a row of another user.
C25_Witness ==
    \E p \in Procs :
        /\ Finished(p, "transactions")
        /\ req[p].res = 200
        /\ Cardinality(OwnRows(p)) > 10
        /\ Len(req[p].body) = 10
        /\ OwnRows(p) # Indices(transactions)

\* ---------------------------------------------------------------------- C26
\* C26: in every reachable state every user's gemBalance is non-negative.
C26_NonNegativeBalance ==
    \A u \in DOMAIN users : users[u].gemBalance >= 0

\* ---------------------------------------------------------------------- C27
\* Worker p writes a withdrawal's amount back to its owner's balance.
CreditsBack(p) ==
    /\ req[p].pc = "adjudicate_updateUserGemBalance"
    /\ req'[p].pc = "adjudicate_createSecurityLog"
    /\ req[p].dbUser # <<>>

\* C27: a withdrawal's amount is credited back at most once and never after
\* the withdrawal was approved: whenever an adjudication credits an amount
\* back, the withdrawal was still pending when that adjudication arrived.
C27_CreditBackOnce ==
    [][\A p \in Procs :
          CreditsBack(p) =>
              Pre(p).withdrawalRequests[req[p].withdrawalId].status = "pending"]_vars

\* ---------------------------------------------------------------------- C28
\* The gems the ledger records as credited to the user by survey and
\* offerwall rewards.
RECURSIVE RewardsOf(_, _)
RewardsOf(table, userId) ==
    IF table = <<>> THEN 0
    ELSE (IF /\ Head(table).userId = userId
             /\ Head(table).type \in {"survey_reward", "offerwall_reward"}
          THEN Head(table).amount ELSE 0)
         + RewardsOf(Tail(table), userId)

\* The amounts of the user's pending and approved WithdrawalRequests.
RECURSIVE WithdrawnOf(_, _)
WithdrawnOf(table, userId) ==
    IF table = <<>> THEN 0
    ELSE (IF /\ Head(table).userId = userId
             /\ Head(table).status \in {"pending", "approved"}
          THEN Head(table).amount ELSE 0)
         + WithdrawnOf(Tail(table), userId)

\* C28: whenever no request is being handled, a user's gemBalance plus the
\* amounts of the user's pending and approved withdrawals does not exceed the
\* gems credited to the user by survey and offerwall rewards, under any
\* interleaving of the user's own requests.
C28_NoOverdraw ==
    Quiescent =>
        \A u \in Users :
            users[u].gemBalance + WithdrawnOf(withdrawalRequests, u)
                <= RewardsOf(transactions, u)

\* ---------------------------------------------------------------------- C29
\* Every status in the table is one of the three.
WithdrawalStatusInRange ==
    \A i \in Indices(withdrawalRequests) :
        withdrawalRequests[i].status \in {"pending", "approved", "rejected"}

\* What one step may do to the table: append a pending row of at least the
\* minimum, and on the rows there before change neither userId, amount nor
\* walletAddress, nor set a status that was not pending to pending.
WithdrawalRowsStep ==
    /\ Len(withdrawalRequests') >= Len(withdrawalRequests)
    /\ \A i \in Indices(withdrawalRequests') :
          IF i \in Indices(withdrawalRequests)
          THEN /\ withdrawalRequests'[i].userId = withdrawalRequests[i].userId
               /\ withdrawalRequests'[i].amount = withdrawalRequests[i].amount
               /\ withdrawalRequests'[i].walletAddress
                     = withdrawalRequests[i].walletAddress
               /\ withdrawalRequests'[i].status = "pending"
                     => withdrawalRequests[i].status = "pending"
          ELSE /\ withdrawalRequests'[i].status = "pending"
               /\ withdrawalRequests'[i].amount >= 100

\* C29: every WithdrawalRequest is created pending with amount >= 100, its
\* status is always pending, approved or rejected, its userId, amount and
\* walletAddress never change, and no step sets the status of an existing
\* request back to pending.
C29_WithdrawalRows ==
    /\ []WithdrawalStatusInRange
    /\ [][WithdrawalRowsStep]_vars

\* The admin asked for status "pending" on a withdrawal that exists and has
\* been decided; the request has been answered.
C29_Witness ==
    \E p \in Procs :
        /\ Finished(p, "adjudicate")
        /\ isAdmin(req[p].userId)
        /\ req[p].status = "pending"
        /\ req[p].withdrawalId \in Indices(withdrawalRequests)
        /\ withdrawalRequests[req[p].withdrawalId].status \in {"approved", "rejected"}

\* ---------------------------------------------------------------------- C30
\* A store call of a withdrawal request fails after the row was inserted and
\* before the balance was written.
WithdrawalCutShort(p) ==
    /\ req[p].pc \in {"withdrawal_createTransaction", "withdrawal_updateUserGemBalance"}
    /\ req'[p].pc = "done"

\* What that leaves: an error for the client, the new row pending with the
\* requested amount, and the balance as it was when the request arrived.
UndebitedPending(p) ==
    LET id == req[p].withdrawal[1].id IN
    /\ req'[p].res = 500
    /\ id \notin Indices(Pre(p).withdrawalRequests)
    /\ id \in Indices(withdrawalRequests')
    /\ withdrawalRequests'[id].userId = req[p].userId
    /\ withdrawalRequests'[id].status = "pending"
    /\ withdrawalRequests'[id].amount = req[p].amount
    /\ users'[req[p].userId].gemBalance = Pre(p).users[req[p].userId].gemBalance

\* The admin's rejection of a pending withdrawal credits its amount; when the
\* owner's balance still was everything the owner had earned, the balance
\* ends that amount above the earnings.
RejectionCredits ==
    \A p \in Procs :
        (/\ Finished(p, "adjudicate")
         /\ req[p].res = 200
         /\ req[p].status = "rejected"
         /\ Pre(p).withdrawalRequests[req[p].withdrawalId].status = "pending")
        => LET w == Pre(p).withdrawalRequests[req[p].withdrawalId] IN
           /\ users[w.userId].gemBalance = Pre(p).users[w.userId].gemBalance + w.amount
           /\ Pre(p).users[w.userId].gemBalance = RewardsOf(Pre(p).transactions, w.userId)
                 => users[w.userId].gemBalance
                       = RewardsOf(transactions, w.userId) + w.amount

\* C30: when a store call of a withdrawal request fails after the pending
\* row was inserted and before updateUserGemBalance has run, the client gets
\* an error while the pending row of amount A stays and the balance is not
\* reduced; the admin's rejection of that withdrawal then leaves the balance
\* A above what the user earned.
C30_WithdrawalNotAtomic ==
    /\ [][\A p \in Procs : WithdrawalCutShort(p) => UndebitedPending(p)]_vars
    /\ []RejectionCredits

\* The rejection of a withdrawal that was never deducted has been answered:
\* the owner holds more gems than the rewards credited to the owner.
C30_Witness ==
    \E p \in Procs :
        /\ Finished(p, "adjudicate")
        /\ req[p].res = 200
        /\ req[p].status = "rejected"
        /\ Pre(p).withdrawalRequests[req[p].withdrawalId].status = "pending"
        /\ LET w == Pre(p).withdrawalRequests[req[p].withdrawalId] IN
           /\ Pre(p).users[w.userId].gemBalance = RewardsOf(Pre(p).transactions, w.userId)
           /\ users[w.userId].gemBalance = RewardsOf(transactions, w.userId) + w.amount

====
